---- MODULE Spec2Model ----
(***************************************************************************)
(* Verification model of the LOG8415E-TP2 MapReduce engine.                *)
(*                                                                         *)
(* Spec          the orchestrator (mapreduce/orchestrator_service.py): the *)
(*               job registry, create_job, and run_mapreduce_job cut at    *)
(*               its await points, the worker services answering each      *)
(*               call; several submissions of one-mapper, one-reducer jobs.*)
(* SpecPipeline  the same actions on the submission of a job that fans out *)
(*               to two mappers and two reducers, or of an incomplete      *)
(*               payload.                                                  *)
(* SpecLive      SpecPipeline under fair scheduling of the tasks and with  *)
(*               every call coming to an end.                              *)
(* SpecChunk     the map phase's chunking of the input lines, for every    *)
(*               line count and mapper count within the bounds.            *)
(* SpecPartition the partitioner service (old/mapreduce-local/             *)
(*               partitioner_service.py) answering one call after another, *)
(*               on records that are strings of characters.                *)
(* SpecPartitionKeys  the same service on records whose key has a comma    *)
(*               and on records without a tab.                             *)
(* SpecMap       the mapper service (mapreduce/mapper_service.py) with the *)
(*               friend-recommendation plugin, one call after another.     *)
(* SpecFriend    the friend-recommendation plugin run through map,         *)
(*               concatenate, partition and reduce on a three-user         *)
(*               dataset, for every mapper count and reducer count.        *)
(* SpecLocal     the pipeline of old/mapreduce-local/orchestrator_service  *)
(*               .py, which sorts the mapped records before partitioning.  *)
(* SpecReduce    the reducer service (old/mapreduce-local/                 *)
(*               reducer_service.py) answering one call after another.     *)
(***************************************************************************)
EXTENDS Integers, Sequences, FiniteSets, TLC

VARIABLES
    clock,      \* datetime.now() at second resolution
    nsub,       \* number of POST /jobs requests received so far
    jobs,       \* the registry: job id -> job record (a Python dict of dicts)
    files,      \* the output directory: job id of output_<job id>.txt -> lines
    tasks,      \* per submission: its background task (position, calls in flight)
    responses,  \* per submission: the HTTP response of create_job
    faults,     \* number of worker calls that did not answer 200 so far
    c_lines,    \* SpecChunk: input_lines
    c_urls,     \* SpecChunk: mapper_urls
    c_i,        \* SpecChunk: loop index of the enumerate() loop
    c_chunks,   \* SpecChunk: mapper_chunks built so far
    p_last,     \* SpecPartition: the last /partition request and its response
    p_prev,     \* SpecPartition: where the call before it placed each key
    r_last,     \* SpecReduce: the last /reduce request and the calls of reduce_function
    m_last,     \* SpecMap: the last /map request, the calls of map_function, the response
    f_run,      \* SpecFriend: one run of the plugin through the pipeline
    l_run       \* SpecLocal: one run of the mapreduce-local pipeline

vars == <<clock, nsub, jobs, files, tasks, responses, faults, c_lines, c_urls, c_i, c_chunks,
          p_last, p_prev, r_last, m_last, f_run, l_run>>
orchVars == <<clock, nsub, jobs, files, tasks, responses, faults>>
chunkVars == <<c_lines, c_urls, c_i, c_chunks>>
partVars == <<p_last, p_prev>>
workVars == <<r_last, m_last, f_run, l_run>>

----------------------------------------------------------------------------
(* Bounds *)

MaxSubmissions == 2
MaxPipelines == 1
MaxFaults == 2
MaxLines == 6
MaxMappers == 5
MaxRecords == 2
MaxPartitions == 2
MaxReduced == 3
MaxDataLines == 3
MaxEmitted == 3

PreviewLen == 10

----------------------------------------------------------------------------
(* Python helpers *)

Min(a, b) == IF a < b THEN a ELSE b
Max(a, b) == IF a > b THEN a ELSE b

\* seq[start:end] for 0 <= start, 0 <= end: indices are clamped to len(seq)
Slice(seq, start, end) ==
    LET lo == Min(start, Len(seq))
        hi == Min(end, Len(seq))
    IN  IF hi <= lo THEN << >>
        ELSE [k \in 1..(hi - lo) |-> seq[lo + k]]

RECURSIVE Flatten(_)
Flatten(seqs) ==
    IF seqs = << >> THEN << >> ELSE Head(seqs) \o Flatten(Tail(seqs))

\* d[k] = v on a dict
SetKey(d, k, v) == [x \in DOMAIN d \cup {k} |-> IF x = k THEN v ELSE d[x]]

NoneStr == "None"
NoneList == <<"None">>
\* `not x` for an Optional[str] and for an Optional[List[str]]
FalsyStr(x) == x = NoneStr \/ x = ""
FalsyList(x) == x = NoneList \/ x = << >>

----------------------------------------------------------------------------
(* The data directory and the example plugin *)

\* what os.path.exists / os.path.isfile answer for a dataset path
PathKind(input_file) ==
    CASE input_file \in {"a.txt", "b.txt", "empty.txt", "punct.txt"} -> "file"
      [] input_file = "dir" -> "dir"
      [] OTHER -> "missing"

\* the lines of each dataset file as iterating the file yields them
FileLines(input_file) ==
    CASE input_file = "a.txt" -> <<"ant", "", "cat", " ant", "eel">>
      [] input_file = "b.txt" -> <<"fox", " ", "gnu">>
      [] input_file = "punct.txt" -> <<"!!">>
      [] OTHER -> <<"", " ">>

\* str.strip() on the lines above
Strip(line) ==
    CASE line = " " -> ""
      [] line = " ant" -> "ant"
      [] OTHER -> line

\* [line.strip() for line in f if line.strip()]
RECURSIVE StripNonBlank(_)
StripNonBlank(raw) ==
    IF raw = << >> THEN << >>
    ELSE (IF Strip(Head(raw)) # "" THEN <<Strip(Head(raw))>> ELSE << >>)
         \o StripNonBlank(Tail(raw))

\* int(hashlib.md5(key.encode()).hexdigest(), 16) % 60 for the keys above
Md5Mod60(key) ==
    CASE key = "ant" -> 17
      [] key = "cat" -> 32
      [] key = "eel" -> 22
      [] key = "fox" -> 28
      [] key = "gnu" -> 27
      [] OTHER -> 0

\* a plugin in the shape of algorithms/wordcount.py on one-word lines:
\* map emits (word, "1"), and nothing for a line without a letter or digit;
\* a record "key<TAB>value" is the pair <<key, value>>
map_function(line) == IF line = "!!" THEN << >> ELSE << <<line, "1">> >>

\* reduce sums the "1"s of a group and returns one output line
reduce_function(key, values) == << <<key, Len(values)>> >>

\* the plugin "merge" is the same plugin with an aggregate_function
HasAggregate(algorithm) == algorithm = "merge"

\* aggregate merges the output lines of one key into one line with the sum of
\* their counts, at the place of the first of them
RECURSIVE aggregate_function(_)
aggregate_function(reduce_outputs) ==
    IF reduce_outputs = << >> THEN << >>
    ELSE LET before == aggregate_function(SubSeq(reduce_outputs, 1, Len(reduce_outputs) - 1))
             line == reduce_outputs[Len(reduce_outputs)]
         IN  IF \E k \in 1..Len(before) : before[k][1] = line[1]
             THEN [k \in 1..Len(before) |->
                      IF before[k][1] = line[1]
                      THEN <<line[1], before[k][2] + line[2]>> ELSE before[k]]
             ELSE Append(before, line)

----------------------------------------------------------------------------
(* Worker services: what a call answers when it answers at all *)

\* mapper_service.map_data: 500 when the plugin cannot be loaded, else the
\* emissions of every non-blank line of the chunk, in order
RECURSIVE Emissions(_)
Emissions(data_lines) ==
    IF data_lines = << >> THEN << >>
    ELSE (IF Strip(Head(data_lines)) # ""
          THEN map_function(Strip(Head(data_lines))) ELSE << >>)
         \o Emissions(Tail(data_lines))

map_data(algorithm, data_lines) ==
    IF algorithm = NoneStr
    THEN [status_code |-> 500, mapped_data |-> << >>]
    ELSE [status_code |-> 200, mapped_data |-> Emissions(data_lines)]

\* partitioner_service.partition_line; the keys here hold no comma, so
\* split(',')[0] is the whole key
partition_line(record, num_reducers) == Md5Mod60(record[1]) % num_reducers

\* partitioner_service.partition_data: bucket i holds, in input order, the
\* records whose key hashes to i
RECURSIVE Bucket(_, _, _)
Bucket(data, num_partitions, i) ==
    IF data = << >> THEN << >>
    ELSE (IF partition_line(Head(data), num_partitions) = i
          THEN <<Head(data)>> ELSE << >>)
         \o Bucket(Tail(data), num_partitions, i)

partition_data(data, num_partitions) ==
    LET partitions == [i \in 0..(num_partitions - 1) |-> Bucket(data, num_partitions, i)]
    IN  [partitions |-> partitions,
         partition_counts |-> [i \in 0..(num_partitions - 1) |-> Len(partitions[i])]]

\* reducer_service.reduce_data: groups by runs of equal consecutive keys; the
\* empty string stands for current_key = None (both are falsy)
RECURSIVE ReduceScan(_, _, _, _)
ReduceScan(data, current_key, values, results) ==
    IF data = << >>
    THEN IF current_key # ""
         THEN results \o reduce_function(current_key, values)
         ELSE results
    ELSE LET key == Head(data)[1]
             value == Head(data)[2]
             flush == current_key # "" /\ current_key # key
         IN  ReduceScan(Tail(data), key,
                        (IF flush THEN << >> ELSE values) \o <<value>>,
                        IF flush THEN results \o reduce_function(current_key, values)
                        ELSE results)

reduce_data(partitioned_data) == ReduceScan(partitioned_data, "", << >>, << >>)

----------------------------------------------------------------------------
(* run_mapreduce_job: the synchronous computations between its awaits *)

\* step 1: the dataset's non-blank lines, or the HTTPException raised
ingest(input_file) ==
    IF PathKind(input_file) = "missing"
    THEN [ok |-> FALSE, status_code |-> 404, detail |-> "Input file not found"]
    ELSE IF PathKind(input_file) # "file"
    THEN [ok |-> FALSE, status_code |-> 400, detail |-> "Input path is not a file"]
    ELSE IF StripNonBlank(FileLines(input_file)) = << >>
    THEN [ok |-> FALSE, status_code |-> 400,
          detail |-> "Input file is empty or contains only blank lines"]
    ELSE [ok |-> TRUE, input_lines |-> StripNonBlank(FileLines(input_file))]

\* a chunk size without the floor of one line
chunk_size_floor(input_lines, num_mappers) == Len(input_lines) \div num_mappers

chunk_size(input_lines, num_mappers) == Max(1, Len(input_lines) \div num_mappers)

\* an iteration that gives the last mapper a chunk of chunk_size lines too
ChunkAtNoRemainder(input_lines, num_mappers, i) ==
    Slice(input_lines, i * chunk_size(input_lines, num_mappers),
          (i + 1) * chunk_size(input_lines, num_mappers))

\* one iteration of the enumerate(mapper_urls) loop, i counted from 0
ChunkAt(input_lines, num_mappers, i) ==
    LET start == i * chunk_size(input_lines, num_mappers)
        end == IF i < num_mappers - 1
               THEN start + chunk_size(input_lines, num_mappers)
               ELSE Len(input_lines)
    IN  Slice(input_lines, start, end)

\* mapper_chunks: entry i+1 is (mapper_urls[i], chunk i)
mapper_chunks(input_lines, mapper_urls) ==
    [k \in 1..Len(mapper_urls) |->
        <<mapper_urls[k], ChunkAt(input_lines, Len(mapper_urls), k - 1)>>]

\* all_mapped_data once every mapper answered 200
AllMapped(req) ==
    LET chunks == mapper_chunks(ingest(req.input_file).input_lines, req.mapper_urls)
    IN  Flatten([k \in 1..Len(chunks) |->
                    map_data(req.algorithm, chunks[k][2]).mapped_data])

PartitionResponse(req) == partition_data(AllMapped(req), req.num_reducers)

\* all_reduced_data once every reducer answered 200: reducer-index order
AllReduced(req) ==
    Flatten([k \in 1..req.num_reducers |->
                reduce_data(PartitionResponse(req).partitions[k - 1])])

\* step 5 when it raises nothing: aggregate_function if the plugin has one
final_results(req) ==
    IF HasAggregate(req.algorithm) THEN aggregate_function(AllReduced(req))
    ELSE AllReduced(req)

----------------------------------------------------------------------------
(* The orchestrator's state *)

\* the JobRequest payloads clients send
ValidA == [algorithm |-> "plugin", input_file |-> "a.txt", num_reducers |-> 2,
           mapper_urls |-> <<"m1", "m2">>, reducer_urls |-> <<"r1", "r2">>,
           partitioner_url |-> "p"]
ValidB == [algorithm |-> "plugin", input_file |-> "b.txt", num_reducers |-> 1,
           mapper_urls |-> <<"m1">>, reducer_urls |-> <<"r1">>,
           partitioner_url |-> "p"]
Small == [ValidB EXCEPT !.input_file = "a.txt"]

\* the payloads of Spec: jobs of one mapper and one reducer
Requests ==
    { ValidB, Small,
      [Small EXCEPT !.input_file = NoneStr],
      [Small EXCEPT !.input_file = ""] }

\* the payloads of SpecPipeline: a job of two mappers and two reducers, and
\* the incomplete payloads
PipelineRequests ==
    { ValidA,
      [Small EXCEPT !.input_file = "empty.txt"],
      [Small EXCEPT !.input_file = "missing.txt"],
      [Small EXCEPT !.input_file = "punct.txt"],
      [Small EXCEPT !.algorithm = NoneStr],
      [Small EXCEPT !.algorithm = "merge"],
      [Small EXCEPT !.mapper_urls = NoneList],
      [Small EXCEPT !.mapper_urls = << >>],
      [Small EXCEPT !.reducer_urls = NoneList],
      [Small EXCEPT !.reducer_urls = << >>],
      [ValidA EXCEPT !.reducer_urls = <<"r1">>] }

NoRequest == [Small EXCEPT !.input_file = NoneStr, !.algorithm = NoneStr]
NoJobId == <<"none", 0>>
NoResponse == [status_code |-> 0, job_id |-> NoJobId, status |-> ""]
\* no exception
NoError == [type |-> "", status_code |-> 0, detail |-> "", url |-> ""]
\* the body of a partitioner response before there is one
NoPartitions == [partitions |-> << >>, partition_counts |-> << >>]
\* a background task: where it stands (pc), the state of its calls and the
\* bodies of their 200 responses (mapped, partitioned, reduced), the order in
\* which the reducer calls answered 200 (rdone), the POST
\* requests it has sent (posts), how steps 5 and 6 went (aggregate, save), the
\* exception that left the try body (raised), and how it ended (result)
NoTask == [pc |-> "none", job_id |-> NoJobId, req |-> NoRequest,
           mcalls |-> << >>, pcall |-> "none", rcalls |-> << >>,
           mapped |-> << >>, partitioned |-> NoPartitions, reduced |-> << >>,
           rdone |-> << >>,
           posts |-> << >>, aggregate |-> "none", save |-> "none",
           raised |-> NoError, result |-> ""]

\* what a call to a worker can come to: a response, or an httpx exception
\* (connection error, timeout)
Outcomes == {"200", "500", "exception"}

\* job_id = f"job_{datetime.now().strftime('%Y%m%d_%H%M%S')}": one id per second
NewJobId(now) == <<"job", now>>

\* the orchestrator after start-up, about to receive n submissions
Started(n) ==
    /\ clock = 0
    /\ nsub = 0
    /\ jobs = [j \in {} |-> NoTask]
    /\ files = [j \in {} |-> << >>]
    /\ tasks = [s \in 1..n |-> NoTask]
    /\ responses = [s \in 1..n |-> [req |-> NoRequest, resp |-> NoResponse]]
    /\ faults = 0

ChunkIdle ==
    /\ c_lines = << >>
    /\ c_urls = << >>
    /\ c_i = 0
    /\ c_chunks = << >>

\* the partitioner before its first call
NoCall == [num_partitions |-> 0, placed |-> {}]
PartIdle ==
    /\ p_last = [sorted_data |-> << >>, num_partitions |-> 0,
                 partitions |-> << >>, partition_counts |-> << >>]
    /\ p_prev = NoCall

\* the worker services before their first call
ReduceIdle == r_last = [sorted_data |-> << >>, calls |-> << >>]
MapIdle ==
    m_last = [data_lines |-> << >>, calls |-> << >>,
              mapped_data |-> << >>, total_records |-> 0]
FriendIdle ==
    f_run = [pc |-> "none", mappers |-> 0, reducers |-> 0, mapped |-> << >>,
             partitions |-> << >>, reduced |-> << >>, all_reduced_data |-> << >>]
LocalIdle ==
    l_run = [pc |-> "none", emitted |-> << >>, reducers |-> 0, all_mapped_data |-> << >>,
             sorted_data |-> << >>, partitions |-> << >>, calls |-> << >>]
WorkIdle == ReduceIdle /\ MapIdle /\ FriendIdle /\ LocalIdle

Init == Started(MaxSubmissions) /\ ChunkIdle /\ PartIdle /\ WorkIdle
InitPipeline == Started(MaxPipelines) /\ ChunkIdle /\ PartIdle /\ WorkIdle

\* the clock reaches the next second; seconds in which no job is created
\* leave no trace, so only a second that named a job is left behind
Tick ==
    /\ NewJobId(clock) \in DOMAIN jobs
    /\ clock' = clock + 1
    /\ UNCHANGED <<nsub, jobs, files, tasks, responses, faults, chunkVars, partVars, workVars>>

----------------------------------------------------------------------------
(* POST /jobs *)

\* a check that lets the empty string through
MissingInputNoneOnly(req) == req.input_file = NoneStr

\* `if not req["input_file"]`
MissingInput(req) == FalsyStr(req.input_file)

NewJobRecord(job_id) ==
    [job_id |-> job_id, status |-> "pending", progress |-> "Job created"]

\* a handler that awaits the pipeline itself: it is under way before the response
AddTaskInline(job_id, req) ==
    [NoTask EXCEPT !.pc = "map_wait", !.job_id = job_id, !.req = req,
                   !.mcalls = <<"inflight">>]

\* background_tasks.add_task(run_mapreduce_job, job_id, merged_request)
AddTask(job_id, req) == [NoTask EXCEPT !.pc = "queued", !.job_id = job_id, !.req = req]

create_job(req) ==
    /\ nsub + 1 \in DOMAIN tasks
    /\ nsub' = nsub + 1
    /\ IF MissingInput(req)
       THEN /\ responses' = [responses EXCEPT ![nsub + 1] =
                   [req |-> req,
                    resp |-> [status_code |-> 400, job_id |-> NoJobId, status |-> ""]]]
            /\ UNCHANGED <<jobs, tasks>>
       ELSE /\ jobs' = SetKey(jobs, NewJobId(clock), NewJobRecord(NewJobId(clock)))
            /\ tasks' = [tasks EXCEPT ![nsub + 1] = AddTask(NewJobId(clock), req)]
            /\ responses' = [responses EXCEPT ![nsub + 1] =
                   [req |-> req,
                    resp |-> [status_code |-> 200, job_id |-> NewJobId(clock),
                              status |-> "pending"]]]
    /\ UNCHANGED <<clock, files, faults, chunkVars, partVars, workVars>>

\* GET /jobs/{job_id}
get_job_status(job_id) ==
    IF job_id \notin DOMAIN jobs
    THEN [status_code |-> 404]
    ELSE [status_code |-> 200, job |-> jobs[job_id]]

\* GET /jobs/{job_id}/output on the registry and the output directory; the
\* content of the file is the sequence of its lines
get_job_output(job_id) ==
    IF job_id \notin DOMAIN jobs
    THEN [status_code |-> 404, detail |-> "Output file not found for this job"]
    ELSE IF "output_file" \notin DOMAIN jobs[job_id]
    THEN [status_code |-> 404, detail |-> "Output file not found for this job"]
    ELSE IF jobs[job_id].output_file \notin DOMAIN files
    THEN [status_code |-> 404, detail |-> "Output file does not exist"]
    ELSE [status_code |-> 200, job_id |-> job_id,
          file_name |-> jobs[job_id].output_file,
          output |-> files[jobs[job_id].output_file]]

----------------------------------------------------------------------------
(* run_mapreduce_job, one action per stretch of code between two awaits *)

\* the exceptions the pipeline raises, as str(e) shows them
HTTPError(status_code, detail, url) ==
    [type |-> "HTTPException", status_code |-> status_code, detail |-> detail, url |-> url]
\* an httpx exception (ConnectError, ReadTimeout, ...): its text names no service
TransportError ==
    [type |-> "httpx.TransportError", status_code |-> 0,
     detail |-> "All connection attempts failed", url |-> ""]
PythonError(type, detail) ==
    [type |-> type, status_code |-> 0, detail |-> detail, url |-> ""]

\* jobs[job_id]["status"] = "running"
MarkRunning(registry, job_id) ==
    SetKey(registry, job_id, SetKey(registry[job_id], "status", "running"))

\* an except clause for HTTPException only: any other exception goes through
MarkFailedHTTPOnly(registry, job_id, e) ==
    IF e.type = "HTTPException"
    THEN SetKey(registry, job_id,
                SetKey(SetKey(registry[job_id], "status", "failed"), "error", e))
    ELSE registry

\* the except clause: status failed, error = str(e)
MarkFailed(registry, job_id, e) ==
    SetKey(registry, job_id,
           SetKey(SetKey(registry[job_id], "status", "failed"), "error", e))

\* f"output_{job_id}.txt"
OutputFile(job_id) == <<"output", job_id, "txt">>

\* step 6 on the registry
MarkCompleted(registry, job_id, results, counts) ==
    SetKey(registry, job_id,
           SetKey(SetKey(SetKey(SetKey(registry[job_id],
               "status", "completed"),
               "result_preview", Slice(results, 0, PreviewLen)),
               "output_file", OutputFile(job_id)),
               "partition_counts", counts))

\* the task returns, through step 6 or through the except clause
Finish(s, result) == [tasks EXCEPT ![s].pc = "done", ![s].result = result]

\* the except clause: the exception e has left the try body, where the
\* registry and the task stood at `registry` and `ts`; the task returns
Except(s, registry, ts, e) ==
    /\ jobs' = MarkFailed(registry, tasks[s].job_id, e)
    /\ tasks' = [ts EXCEPT ![s].pc = "done", ![s].result = "failed", ![s].raised = e]

\* at most MaxFaults calls end otherwise than with a 200 response
CountFault(out) ==
    IF out = "200" THEN faults' = faults
    ELSE faults < MaxFaults /\ faults' = faults + 1

\* a loop that posts every chunk twice
MapPostsTwice(req) ==
    [k \in 1..(2 * Len(req.mapper_urls)) |->
        [path |-> "/map", url |-> req.mapper_urls[((k - 1) % Len(req.mapper_urls)) + 1],
         index |-> (k - 1) % Len(req.mapper_urls)]]

\* the POST requests of each phase: one /map per entry of mapper_chunks, one
\* /partition, one /reduce per partition index i in range(num_reducers)
MapPosts(req) ==
    [k \in 1..Len(req.mapper_urls) |->
        [path |-> "/map", url |-> req.mapper_urls[k], index |-> k - 1]]
PartitionPost(req) == <<[path |-> "/partition", url |-> req.partitioner_url, index |-> 0]>>
ReducePosts(req) ==
    [k \in 1..req.num_reducers |->
        [path |-> "/reduce", url |-> req.reducer_urls[k], index |-> k - 1]]

\* from the task's start to the await of the mapper calls
RunStart(s) ==
    /\ tasks[s].pc = "queued"
    /\ LET req == tasks[s].req
           job_id == tasks[s].job_id
           running == MarkRunning(jobs, job_id)
           ing == ingest(req.input_file)
       IN  IF ~ing.ok
           THEN Except(s, running, tasks, HTTPError(ing.status_code, ing.detail, ""))
           ELSE IF FalsyList(req.mapper_urls)
           THEN Except(s, running, tasks,
                       HTTPError(400, "No mapper_urls provided in job payload", ""))
           ELSE /\ jobs' = running
                /\ tasks' = [tasks EXCEPT ![s].pc = "map_wait",
                                 ![s].mcalls = [k \in 1..Len(req.mapper_urls) |-> "inflight"],
                                 ![s].mapped = [k \in 1..Len(req.mapper_urls) |-> << >>],
                                 ![s].posts = MapPosts(req)]
    /\ UNCHANGED <<clock, nsub, files, responses, faults, chunkVars, partVars, workVars>>

\* a POST /map call comes to its end; 200, with the mapped data of its chunk,
\* only if the mapper can load the plugin
MapperReturn(s, k, out) ==
    /\ tasks[s].pc = "map_wait"
    /\ k \in DOMAIN tasks[s].mcalls
    /\ tasks[s].mcalls[k] = "inflight"
    /\ LET response ==
               map_data(tasks[s].req.algorithm,
                        mapper_chunks(ingest(tasks[s].req.input_file).input_lines,
                                      tasks[s].req.mapper_urls)[k][2])
       IN  /\ out = "200" => response.status_code = 200
           /\ tasks' = [tasks EXCEPT ![s].mcalls[k] = out,
                            ![s].mapped[k] = IF out = "200" THEN response.mapped_data
                                             ELSE << >>]
    /\ CountFault(out)
    /\ UNCHANGED <<clock, nsub, jobs, files, responses, chunkVars, partVars, workVars>>

\* a wait that returns with the first response
GatherReadyAny(calls) == \E k \in DOMAIN calls : calls[k] \in {"200", "500"}

\* a gather that raises only once every call has raised
GatherRaisesAll(calls) == \A k \in DOMAIN calls : calls[k] = "exception"

\* asyncio.gather returns once every call has a response
GatherReady(calls) == \A k \in DOMAIN calls : calls[k] \in {"200", "500"}
\* asyncio.gather raises as soon as one call has raised
GatherRaises(calls) == \E k \in DOMAIN calls : calls[k] = "exception"

\* a check that looks at the first response only
BadResponsesFirst(calls) == {k \in DOMAIN calls : k = 1 /\ calls[k] = "500"}

\* the responses whose status_code is not 200, and the first of them
BadResponses(calls) == {k \in DOMAIN calls : calls[k] = "500"}
FirstBad(calls) == CHOOSE k \in BadResponses(calls) : \A m \in BadResponses(calls) : k <= m

\* gather returned: check the responses in order, then post to the partitioner
MapGathered(s) ==
    /\ tasks[s].pc = "map_wait"
    /\ GatherReady(tasks[s].mcalls)
    /\ IF BadResponses(tasks[s].mcalls) = {}
       THEN /\ tasks' = [tasks EXCEPT ![s].pc = "partition_wait", ![s].pcall = "inflight",
                            ![s].posts = @ \o PartitionPost(tasks[s].req)]
            /\ UNCHANGED jobs
       ELSE Except(s, jobs, tasks,
                   HTTPError(500, "Mapper service failed",
                             tasks[s].req.mapper_urls[FirstBad(tasks[s].mcalls)]))
    /\ UNCHANGED <<clock, nsub, files, responses, faults, chunkVars, partVars, workVars>>

\* gather raised an httpx exception of one of the mapper calls
MapException(s) ==
    /\ tasks[s].pc = "map_wait"
    /\ GatherRaises(tasks[s].mcalls)
    /\ Except(s, jobs, tasks, TransportError)
    /\ UNCHANGED <<clock, nsub, files, responses, faults, chunkVars, partVars, workVars>>

\* the POST /partition call comes to its end; on 200 the reduce calls are built
PartitionReturn(s, out) ==
    /\ tasks[s].pc = "partition_wait"
    /\ LET req == tasks[s].req
           job_id == tasks[s].job_id
       IN  IF out = "exception"
           THEN Except(s, jobs, [tasks EXCEPT ![s].pcall = out], TransportError)
           ELSE IF out # "200"
           THEN Except(s, jobs, [tasks EXCEPT ![s].pcall = out],
                       HTTPError(500, "Partitioner service failed", req.partitioner_url))
           ELSE IF req.reducer_urls = NoneList
           THEN Except(s, jobs, [tasks EXCEPT ![s].pcall = out],
                       PythonError("TypeError", "'NoneType' object is not subscriptable"))
           ELSE IF Len(req.reducer_urls) < req.num_reducers
           THEN Except(s, jobs, [tasks EXCEPT ![s].pcall = out],
                       PythonError("IndexError", "list index out of range"))
           ELSE /\ tasks' = [tasks EXCEPT ![s].pc = "reduce_wait", ![s].pcall = out,
                                 ![s].partitioned =
                                     partition_data(Flatten(tasks[s].mapped), req.num_reducers),
                                 ![s].rcalls = [k \in 1..req.num_reducers |-> "inflight"],
                                 ![s].reduced = [k \in 1..req.num_reducers |-> << >>],
                                 ![s].posts = @ \o ReducePosts(req)]
                /\ UNCHANGED jobs
    /\ CountFault(out)
    /\ UNCHANGED <<clock, nsub, files, responses, chunkVars, partVars, workVars>>

\* a POST /reduce call comes to its end; 200 brings the reduced data of
\* partitions.get(str(i), []) for i = k - 1
ReducerReturn(s, k, out) ==
    /\ tasks[s].pc = "reduce_wait"
    /\ k \in DOMAIN tasks[s].rcalls
    /\ tasks[s].rcalls[k] = "inflight"
    /\ tasks' = [tasks EXCEPT ![s].rcalls[k] = out,
                     ![s].rdone = IF out = "200" THEN Append(@, k) ELSE @,
                     ![s].reduced[k] =
                         IF out = "200"
                         THEN reduce_data(tasks[s].partitioned.partitions[k - 1])
                         ELSE << >>]
    /\ CountFault(out)
    /\ UNCHANGED <<clock, nsub, jobs, files, responses, chunkVars, partVars, workVars>>

\* step 5 can raise (load_algorithm finds no file at its relative path), and
\* so can step 6: in makedirs or open, before the file exists, or in write
AggregateOutcomes == {"returned", "raised"}
SaveOutcomes == {"saved", "open_raised", "write_raised"}

\* reducer outputs put together in the order in which the calls answered
AllReducedDataByCompletion(task) ==
    Flatten([n \in 1..Len(task.rdone) |-> task.reduced[task.rdone[n]]])

\* all_reduced_data: the loop over reducer_responses, which gather returns in
\* the order of reducer_tasks
AllReducedData(task) == Flatten(task.reduced)

\* a step 5 that is left with no results when it raises
FinalResultsEmptyOnError(task, agg) ==
    IF agg = "raised" THEN << >>
    ELSE IF HasAggregate(task.req.algorithm)
    THEN aggregate_function(AllReducedData(task))
    ELSE AllReducedData(task)

\* final_results after step 5
FinalResults(task, agg) ==
    IF agg = "returned" /\ HasAggregate(task.req.algorithm)
    THEN aggregate_function(AllReducedData(task))
    ELSE AllReducedData(task)

\* steps 5 and 6: an exception of step 5 is swallowed and the reduced lines are
\* the final results; an exception of step 6 leaves the try body
AggregateAndSave(s, agg, save) ==
    LET results == FinalResults(tasks[s], agg)
        ts == [tasks EXCEPT ![s].aggregate = agg, ![s].save = save]
    IN  IF save = "saved"
        THEN /\ files' = SetKey(files, OutputFile(tasks[s].job_id), results)
             /\ jobs' = MarkCompleted(jobs, tasks[s].job_id, results,
                                      tasks[s].partitioned.partition_counts)
             /\ tasks' = [ts EXCEPT ![s].pc = "done", ![s].result = "completed"]
        ELSE IF save = "open_raised"
        THEN /\ Except(s, jobs, ts, PythonError("OSError", "[Errno 13] Permission denied"))
             /\ UNCHANGED files
        ELSE /\ Except(s, jobs, ts, PythonError("OSError", "[Errno 28] No space left on device"))
             /\ files' = SetKey(files, OutputFile(tasks[s].job_id), << >>)

\* gather returned: check the responses in order, aggregate, save, complete
ReduceGathered(s) ==
    /\ tasks[s].pc = "reduce_wait"
    /\ GatherReady(tasks[s].rcalls)
    /\ IF BadResponses(tasks[s].rcalls) = {}
       THEN AggregateAndSave(s, "returned", "saved")
       ELSE /\ Except(s, jobs, tasks,
                      HTTPError(500, "Reducer service failed",
                                tasks[s].req.reducer_urls[FirstBad(tasks[s].rcalls)]))
            /\ UNCHANGED files
    /\ UNCHANGED <<clock, nsub, responses, faults, chunkVars, partVars, workVars>>

\* gather returned, every response is 200, and step 5 or step 6 raises
ReduceGatheredFault(s, agg, save) ==
    /\ tasks[s].pc = "reduce_wait"
    /\ GatherReady(tasks[s].rcalls)
    /\ BadResponses(tasks[s].rcalls) = {}
    /\ agg = "raised" \/ save # "saved"
    /\ AggregateAndSave(s, agg, save)
    /\ CountFault("exception")
    /\ UNCHANGED <<clock, nsub, responses, chunkVars, partVars, workVars>>

\* gather raised an httpx exception of one of the reducer calls
ReduceException(s) ==
    /\ tasks[s].pc = "reduce_wait"
    /\ GatherRaises(tasks[s].rcalls)
    /\ Except(s, jobs, tasks, TransportError)
    /\ UNCHANGED <<clock, nsub, files, responses, faults, chunkVars, partVars, workVars>>

\* the steps of the background tasks and of the calls they wait for
Steps ==
    \/ Tick
    \/ \E s \in DOMAIN tasks : RunStart(s)
    \/ \E s \in DOMAIN tasks : \E k \in DOMAIN tasks[s].mcalls, out \in Outcomes :
          MapperReturn(s, k, out)
    \/ \E s \in DOMAIN tasks : MapGathered(s)
    \/ \E s \in DOMAIN tasks : MapException(s)
    \/ \E s \in DOMAIN tasks, out \in Outcomes : PartitionReturn(s, out)
    \/ \E s \in DOMAIN tasks : \E k \in DOMAIN tasks[s].rcalls, out \in Outcomes :
          ReducerReturn(s, k, out)
    \/ \E s \in DOMAIN tasks : ReduceGathered(s)
    \/ \E s \in DOMAIN tasks : ReduceException(s)

\* the same with a fault in step 5 or step 6 of a task
StepFaults ==
    \E s \in DOMAIN tasks, agg \in AggregateOutcomes, save \in SaveOutcomes :
        ReduceGatheredFault(s, agg, save)

\* Spec: worker calls fail, steps 5 and 6 do not
Next == (\E req \in Requests : create_job(req)) \/ Steps
NextPipeline == (\E req \in PipelineRequests : create_job(req)) \/ Steps \/ StepFaults

Spec == Init /\ [][Next]_vars
SpecPipeline == InitPipeline /\ [][NextPipeline]_vars

\* the event loop runs every task that is ready, and every call in flight comes
\* to an end: a response, a connection error, or the 300 s timeout of its client
\* the submissions are those of a job of two mappers and two reducers, of a job
\* whose mappers answer 500, and of a job that fails before its first call
LiveRequests ==
    { ValidA,
      [Small EXCEPT !.algorithm = NoneStr],
      [Small EXCEPT !.input_file = "missing.txt"] }
NextLive == (\E req \in LiveRequests : create_job(req)) \/ Steps \/ StepFaults
SpecLive == InitPipeline /\ [][NextLive]_vars /\ WF_vars(Steps)

----------------------------------------------------------------------------
(* SpecChunk: the chunking loop of the map phase on L lines and M mappers *)

InitChunk ==
    /\ Started(0)
    /\ PartIdle
    /\ WorkIdle
    /\ \E L \in 1..MaxLines, M \in 1..MaxMappers :
          /\ c_lines = [k \in 1..L |-> k]
          /\ c_urls = [k \in 1..M |-> 100 + k]
    /\ c_i = 0
    /\ c_chunks = << >>

\* one iteration: mapper_chunks.append((mapper_url, input_lines[start:end]))
ChunkStep ==
    /\ c_i < Len(c_urls)
    /\ c_chunks' = Append(c_chunks, <<c_urls[c_i + 1], ChunkAt(c_lines, Len(c_urls), c_i)>>)
    /\ c_i' = c_i + 1
    /\ UNCHANGED <<c_lines, c_urls, orchVars, partVars, workVars>>

NextChunk == ChunkStep

SpecChunk == InitChunk /\ [][NextChunk]_vars

ChunkDone == c_urls # << >> /\ c_i = Len(c_urls)
ChunkData == [k \in 1..Len(c_chunks) |-> c_chunks[k][2]]

----------------------------------------------------------------------------
(* SpecPartition: the partitioner service on records as strings of characters *)

TAB == "\t"

\* the records sent to the partitioner: "a<TAB>1", "a<TAB>3", "e<TAB>1" and " "
Records ==
    { <<"a", TAB, "1">>, <<"a", TAB, "3">>, <<"e", TAB, "1">>, <<" ">> }
RecordSets == UNION {[1..m -> Records] : m \in 0..MaxRecords}

\* records with a composite key and without a tab: "a", "a,b<TAB>1", "e<TAB>1"
KeyRecords ==
    { <<"a">>, <<"a", ",", "b", TAB, "1">>, <<"e", TAB, "1">> }
KeyRecordSets == UNION {[1..m -> KeyRecords] : m \in 0..MaxRecords}

\* s.split(sep)[0]: the part of s before the first sep, all of s without one
SplitFirst(str, sep) ==
    LET at == {k \in 1..Len(str) : str[k] = sep}
    IN  IF at = {} THEN str
        ELSE SubSeq(str, 1, (CHOOSE k \in at : \A m \in at : k <= m) - 1)

\* `if record.strip()`: some character of the record is not whitespace
NonBlank(record) == \E k \in 1..Len(record) : record[k] \notin {" ", TAB}

\* int(hashlib.md5(text.encode()).hexdigest(), 16) % 60 for the keys and the
\* records above
md5_mod60(text) ==
    CASE text = <<"a">> -> 37
      [] text = <<"e">> -> 46
      [] text = << >> -> 6
      [] text = <<" ">> -> 3
      [] text = <<"a", TAB, "1">> -> 12
      [] text = <<"a", TAB, "3">> -> 47
      [] text = <<"e", TAB, "1">> -> 23
      [] text = <<"a", ",", "b">> -> 34
      [] text = <<"a", ",", "b", TAB, "1">> -> 24
      [] text = <<"(", "'", "1", "'">> -> 29
      [] text = <<"(", "'", "2", "'">> -> 51

\* a partition_line that hashes the whole line
PartitionLineWhole(line, num_reducers) == md5_mod60(line) % num_reducers

\* a partition_line that hashes all the text before the first tab
PartitionLineTabOnly(line, num_reducers) ==
    md5_mod60(SplitFirst(line, TAB)) % num_reducers

\* partition_line: the bucket of a line
PartitionLine(line, num_reducers) ==
    md5_mod60(SplitFirst(SplitFirst(line, TAB), ",")) % num_reducers

\* a loop body without the test of record.strip()
PartitionDataKeepBlank(sorted_data, num_partitions) ==
    LET partitions ==
            [i \in 0..(num_partitions - 1) |->
                LET Mine(record) == PartitionLine(record, num_partitions) = i
                IN  SelectSeq(sorted_data, Mine)]
    IN  [partitions |-> partitions,
         partition_counts |-> [i \in 0..(num_partitions - 1) |-> Len(partitions[i])]]

\* a loop that puts each record at the head of its bucket
PartitionDataPrepend(sorted_data, num_partitions) ==
    LET Reversed == [k \in 1..Len(sorted_data) |-> sorted_data[Len(sorted_data) + 1 - k]]
        partitions ==
            [i \in 0..(num_partitions - 1) |->
                LET Mine(record) ==
                        NonBlank(record) /\ PartitionLine(record, num_partitions) = i
                IN  SelectSeq(Reversed, Mine)]
    IN  [partitions |-> partitions,
         partition_counts |-> [i \in 0..(num_partitions - 1) |-> Len(partitions[i])]]

\* the body of the response of partition_data: bucket i holds, in the order of
\* the request, the non-blank records that partition_line sends to i
PartitionData(sorted_data, num_partitions) ==
    LET partitions ==
            [i \in 0..(num_partitions - 1) |->
                LET Mine(record) ==
                        NonBlank(record) /\ PartitionLine(record, num_partitions) = i
                IN  SelectSeq(sorted_data, Mine)]
    IN  [partitions |-> partitions,
         partition_counts |-> [i \in 0..(num_partitions - 1) |-> Len(partitions[i])]]

\* the key of a record is its first tab-separated field
KeyOf(record) == SplitFirst(record, TAB)

\* where a response placed each key: pairs <<key, bucket>>
Placed(partitions) ==
    UNION {{<<KeyOf(partitions[i][k]), i>> : k \in 1..Len(partitions[i])} :
              i \in DOMAIN partitions}

InitPartition == Started(0) /\ ChunkIdle /\ PartIdle /\ WorkIdle

\* POST /partition: the handler has no await and keeps nothing between calls
PostPartition(sorted_data, num_partitions) ==
    /\ p_prev' = [num_partitions |-> p_last.num_partitions,
                  placed |-> Placed(p_last.partitions)]
    /\ p_last' = [sorted_data |-> sorted_data, num_partitions |-> num_partitions,
                  partitions |-> PartitionData(sorted_data, num_partitions).partitions,
                  partition_counts |->
                      PartitionData(sorted_data, num_partitions).partition_counts]
    /\ UNCHANGED <<orchVars, chunkVars, workVars>>

NextPartition ==
    \E sorted_data \in RecordSets, num_partitions \in 1..MaxPartitions :
        PostPartition(sorted_data, num_partitions)

SpecPartition == InitPartition /\ [][NextPartition]_vars

NextPartitionKeys ==
    \E sorted_data \in KeyRecordSets, num_partitions \in 1..MaxPartitions :
        PostPartition(sorted_data, num_partitions)

SpecPartitionKeys == InitPartition /\ [][NextPartitionKeys]_vars

----------------------------------------------------------------------------
(* Properties of the registry under several submissions (Spec) *)

Accepted(s) == tasks[s].pc # "none"
\* the submission that created the record of job_id
Owner(job_id) == CHOOSE s \in DOMAIN tasks :
    /\ tasks[s].job_id = job_id
    /\ \A t \in DOMAIN tasks : tasks[t].job_id = job_id => s <= t

\* C1: the status of every job record moves only along pending -> running ->
\* completed or pending -> running -> failed (a task that fails before its
\* first await passes through running within one step); completed and failed
\* are never left, and no record goes back to pending or running.
C1_StatusPath ==
    [][\A j \in DOMAIN jobs :
          /\ j \in DOMAIN jobs'
          /\ \/ jobs'[j].status = jobs[j].status
             \/ jobs[j].status = "pending" /\ jobs'[j].status \in {"running", "failed"}
             \/ jobs[j].status = "running" /\ jobs'[j].status \in {"completed", "failed"}]_vars

\* C2: two accepted submissions with valid, disjoint inputs have distinct job
\* ids, and each one whose task completed finds its own results in its record's
\* preview and in its own artifact.
C2_DisjointJobsIndependent ==
    \A s \in DOMAIN tasks, t \in DOMAIN tasks :
        (s # t /\ Accepted(s) /\ Accepted(t)
              /\ tasks[s].req.input_file # tasks[t].req.input_file)
        => /\ tasks[s].job_id # tasks[t].job_id
           /\ tasks[s].result = "completed" =>
                 /\ jobs[tasks[s].job_id].status = "completed"
                 /\ jobs[tasks[s].job_id].result_preview
                        = Slice(final_results(tasks[s].req), 0, PreviewLen)
                 /\ files[OutputFile(tasks[s].job_id)] = final_results(tasks[s].req)

\* C3: a job record, once created, is never removed and is changed only by a
\* step of the background task of the submission that created it.
C3_SingleWriter ==
    [][\A j \in DOMAIN jobs :
          /\ j \in DOMAIN jobs'
          /\ jobs'[j] # jobs[j] =>
                /\ tasks'[Owner(j)] # tasks[Owner(j)]
                /\ tasks[Owner(j)].pc # "none"]_vars

\* C4: a submission with an input_file is answered 200 with the job id and
\* status pending; when the response is produced the record is pending and the
\* task is queued, and a task takes its first step only after its response.
C4_ResponseBeforePipeline ==
    [][\A s \in DOMAIN tasks :
          /\ (nsub = s - 1 /\ nsub' = s /\ responses'[s].req.input_file \notin {NoneStr, ""})
                => /\ responses'[s].resp.status_code = 200
                   /\ responses'[s].resp.status = "pending"
                   /\ responses'[s].resp.job_id = tasks'[s].job_id
                   /\ tasks'[s].pc = "queued"
                   /\ tasks'[s].job_id \in DOMAIN jobs'
                   /\ jobs'[tasks'[s].job_id].status = "pending"
          /\ (tasks[s].pc \in {"none", "queued"} /\ tasks'[s].pc \notin {"none", "queued"})
                => responses[s].resp.status_code = 200]_vars

C4_Witness ==
    \E s \in DOMAIN tasks :
        /\ responses[s].resp.status_code = 200
        /\ tasks[s].pc = "queued"
        /\ jobs[tasks[s].job_id].status = "pending"

\* C5: a submission whose input_file is null or empty is answered 400, and the
\* registry, the tasks and the output files are left as they were.
C5_MissingInputRejected ==
    [][\A s \in DOMAIN tasks :
          (nsub = s - 1 /\ nsub' = s /\ responses'[s].req.input_file \in {NoneStr, ""})
          => /\ responses'[s].resp.status_code = 400
             /\ jobs' = jobs
             /\ tasks' = tasks
             /\ files' = files]_vars

C5_Witness ==
    \E s \in DOMAIN tasks, t \in DOMAIN tasks :
        /\ responses[s].resp.status_code = 400 /\ responses[s].req.input_file = ""
        /\ responses[t].resp.status_code = 400 /\ responses[t].req.input_file = NoneStr
        /\ DOMAIN jobs = {}

----------------------------------------------------------------------------
(* Properties of one job's pipeline (SpecPipeline) *)

\* a payload that lacks the algorithm or an endpoint list, or whose dataset
\* has no non-blank line
Incomplete(req) ==
    \/ req.algorithm = NoneStr
    \/ req.mapper_urls \in {NoneList, << >>}
    \/ req.reducer_urls \in {NoneList, << >>}
    \/ /\ PathKind(req.input_file) = "file"
       /\ \A k \in DOMAIN FileLines(req.input_file) :
             FileLines(req.input_file)[k] \in {"", " "}

\* C6: an incomplete submission is answered with a client error at submission:
\* no job record is created for it and no task is enqueued.
C6_IncompleteRejected ==
    \A s \in 1..nsub :
        Incomplete(responses[s].req)
        => /\ responses[s].resp.status_code \in 400..499
           /\ tasks[s].pc = "none"
           /\ responses[s].resp.job_id = NoJobId

\* C9: the partition call is issued only when every map call has returned, the
\* reduce calls only when the partition call has returned, and the results are
\* aggregated and saved only when every reduce call has returned.
C9_PhaseBarriers ==
    \A s \in DOMAIN tasks :
        /\ tasks[s].pcall # "none" =>
              \A k \in DOMAIN tasks[s].mcalls : tasks[s].mcalls[k] # "inflight"
        /\ tasks[s].rcalls # << >> => tasks[s].pcall \notin {"none", "inflight"}
        /\ tasks[s].result = "completed" =>
              /\ tasks[s].rcalls # << >>
              /\ \A k \in DOMAIN tasks[s].rcalls : tasks[s].rcalls[k] # "inflight"

C9_Witness ==
    \E s \in DOMAIN tasks :
        /\ tasks[s].result = "completed"
        /\ Len(tasks[s].mcalls) = 2
        /\ Len(tasks[s].rcalls) = 2

\* C10: a task is past its map phase (waiting for the partitioner or the
\* reducers, or returned) only when none of its map calls is still in flight,
\* and it has returned only when none of its reduce calls is still in flight.
C10_PhaseEndsWhenAllCallsEnded ==
    \A s \in DOMAIN tasks :
        /\ tasks[s].pc \in {"partition_wait", "reduce_wait", "done"} =>
              \A k \in DOMAIN tasks[s].mcalls : tasks[s].mcalls[k] # "inflight"
        /\ tasks[s].pc = "done" =>
              \A k \in DOMAIN tasks[s].rcalls : tasks[s].rcalls[k] # "inflight"

----------------------------------------------------------------------------
(* Properties of the chunking (SpecChunk) *)

\* C7: the chunks built so far are, in mapper order, consecutive slices of the
\* input lines starting at the first line, and once the loop has ended their
\* concatenation is the whole list of input lines: nothing lost, duplicated or
\* reordered, also with more mappers than lines.
C7_ChunksCoverInOrder ==
    /\ Len(c_chunks) = c_i
    /\ \A k \in 1..Len(c_chunks) : c_chunks[k][1] = c_urls[k]
    /\ Flatten(ChunkData) = SubSeq(c_lines, 1, Len(Flatten(ChunkData)))
    /\ ChunkDone => Flatten(ChunkData) = c_lines

C7_Witness ==
    /\ ChunkDone
    /\ Len(c_urls) > Len(c_lines)
    /\ Len(c_lines) > 1

\* C8 as stated: every chunk but the last has floor(L / M) lines and the last
\* has L - (M - 1) * floor(L / M) lines.
C8_FloorSizes ==
    ChunkDone =>
        LET L == Len(c_lines)
            M == Len(c_urls)
        IN  /\ \A k \in 1..(M - 1) : Len(c_chunks[k][2]) = L \div M
            /\ Len(c_chunks[M][2]) = L - (M - 1) * (L \div M)

\* C8 amended: that holds when M <= L; when M > L each of the first L chunks
\* has one line and the other chunks, the last one included, are empty.
C8_ChunkSizes ==
    ChunkDone =>
        LET L == Len(c_lines)
            M == Len(c_urls)
        IN  IF M <= L
            THEN /\ \A k \in 1..(M - 1) : Len(c_chunks[k][2]) = L \div M
                 /\ Len(c_chunks[M][2]) = L - (M - 1) * (L \div M)
            ELSE \A k \in 1..M : Len(c_chunks[k][2]) = (IF k <= L THEN 1 ELSE 0)

C8_Witness ==
    /\ ChunkDone
    /\ Len(c_urls) > 1
    /\ Len(c_urls) < Len(c_lines)
    /\ Len(c_lines) % Len(c_urls) # 0

----------------------------------------------------------------------------
(* Failures of worker calls in one job's pipeline (SpecPipeline) *)

\* the calls of a task that were answered with a status other than 200
MapFailed(s) == \E k \in DOMAIN tasks[s].mcalls : tasks[s].mcalls[k] = "500"
PartitionFailed(s) == tasks[s].pcall = "500"
ReduceFailed(s) == \E k \in DOMAIN tasks[s].rcalls : tasks[s].rcalls[k] = "500"

\* the step with which the task of submission s returns
Ends(s) == tasks[s].pc # "done" /\ tasks'[s].pc = "done"

\* C11: a task one of whose mapper, partitioner or reducer calls was answered
\* with a non-success response never completes its job and never writes
\* output: after a failed mapper call no partition call is issued, after a
\* failed partition call no reduce call is issued, the task's own steps leave
\* the output files alone, and the step with which it ends marks the job failed.
C11_FailedCallFailsJob ==
    [][\A s \in DOMAIN tasks :
          (MapFailed(s)' \/ PartitionFailed(s)' \/ ReduceFailed(s)') =>
              /\ MapFailed(s)' => tasks'[s].pcall = "none" /\ tasks'[s].rcalls = << >>
              /\ PartitionFailed(s)' => tasks'[s].rcalls = << >>
              /\ tasks'[s].result # "completed"
              /\ tasks'[s] # tasks[s] => files' = files
              /\ Ends(s) =>
                    /\ tasks'[s].result = "failed"
                    /\ jobs'[tasks[s].job_id].status = "failed"]_vars

\* a job of two mappers ended failed with one map call answered 200 and the
\* other 500
C11_Witness ==
    \E s \in DOMAIN tasks :
        /\ tasks[s].pc = "done"
        /\ tasks[s].mcalls = <<"200", "500">>
        /\ jobs[tasks[s].job_id].status = "failed"

----------------------------------------------------------------------------
(* Exceptions in one job's pipeline (SpecPipeline) *)

\* the task of submission s has ended, and one of its steps raised: the
\* ingest or the mapper_urls check, a call of the map, partition or reduce
\* phase (bad response or httpx exception), the reducer_urls lookup, or the
\* saving of the results
StepRaised(s) ==
    /\ tasks[s].pc = "done"
    /\ \/ ~ingest(tasks[s].req.input_file).ok
       \/ FalsyList(tasks[s].req.mapper_urls)
       \/ \E k \in DOMAIN tasks[s].mcalls : tasks[s].mcalls[k] \in {"500", "exception"}
       \/ tasks[s].pcall \in {"500", "exception"}
       \/ tasks[s].pcall = "200" /\ tasks[s].rcalls = << >>
       \/ \E k \in DOMAIN tasks[s].rcalls : tasks[s].rcalls[k] \in {"500", "exception"}
       \/ tasks[s].save \in {"open_raised", "write_raised"}

\* the task returns with the job marked failed and an error recorded on it
CaughtAtJobBoundary(s) ==
    /\ Ends(s)
    /\ tasks'[s].result = "failed"
    /\ jobs'[tasks[s].job_id].status = "failed"
    /\ "error" \in DOMAIN jobs'[tasks[s].job_id]
    /\ jobs'[tasks[s].job_id].error # NoError

\* C13 as stated: an exception raised at any step, the aggregate step
\* included, makes the job failed with the exception text as its error.
C13_EveryExceptionFailsJob ==
    [][\A s \in DOMAIN tasks :
          (Ends(s) /\ (StepRaised(s)' \/ tasks'[s].aggregate = "raised"))
          => CaughtAtJobBoundary(s)]_vars

\* C13 amended: an exception raised at ingest, map, partition, reduce or
\* persist is caught at the job boundary: the task returns, the job is failed
\* and its error is the text of that exception. An exception raised in the
\* aggregate step is caught inside that step and fails nothing: the job
\* completes with the unaggregated lines unless saving them raises.
C13_ExceptionsCaught ==
    [][\A s \in DOMAIN tasks :
          Ends(s) =>
              /\ StepRaised(s)' => tasks'[s].raised # NoError
              /\ tasks'[s].raised # NoError =>
                    /\ CaughtAtJobBoundary(s)
                    /\ jobs'[tasks[s].job_id].error = tasks'[s].raised
              /\ (tasks'[s].aggregate = "raised" /\ tasks'[s].save = "saved") =>
                    /\ tasks'[s].raised = NoError
                    /\ tasks'[s].result = "completed"
                    /\ jobs'[tasks[s].job_id].status = "completed"
                    /\ files'[OutputFile(tasks[s].job_id)] = AllReduced(tasks[s].req)]_vars

\* the saving raised OSError half-way, after the aggregate step had raised
\* and been passed over: the job is failed with the OSError as its error
C13_Witness ==
    \E s \in DOMAIN tasks :
        /\ tasks[s].aggregate = "raised"
        /\ tasks[s].save = "write_raised"
        /\ jobs[tasks[s].job_id].status = "failed"
        /\ jobs[tasks[s].job_id].error.type = "OSError"

----------------------------------------------------------------------------
(* Failures and the other jobs of the registry (Spec) *)

\* C14: the step with which the task of one submission ends in failure leaves
\* the registry record of the job of every other accepted submission as it
\* was: status, error, result_preview, partition_counts and output_file.
C14_FailureLeavesOtherJobs ==
    [][\A s \in DOMAIN tasks, t \in DOMAIN tasks :
          (s # t /\ Accepted(t) /\ Ends(s) /\ tasks'[s].result = "failed")
          => jobs'[tasks[t].job_id] = jobs[tasks[t].job_id]]_vars

----------------------------------------------------------------------------
(* Termination of a job (SpecLive) *)

\* C15: from some point on every accepted submission's task has returned and
\* every job record is completed or failed, whether the calls were answered,
\* failed or timed out: no job stays pending or running forever.
C15_EveryJobEnds ==
    <>[](/\ \A s \in DOMAIN tasks : tasks[s].pc \in {"none", "done"}
         /\ \A j \in DOMAIN jobs : jobs[j].status \in {"completed", "failed"})

\* a job ended failed after one of its map calls timed out while the other
\* was answered
C15_Witness ==
    \E s \in DOMAIN tasks :
        /\ tasks[s].pc = "done"
        /\ tasks[s].mcalls = <<"200", "exception">>
        /\ jobs[tasks[s].job_id].status = "failed"

----------------------------------------------------------------------------
(* Completed jobs (SpecPipeline) *)

\* C16: every job whose status is completed has a non-empty result_preview,
\* which is the first PreviewLen lines of its final result (all of them when
\* there are fewer), and GET /jobs/{id}/output returns its output file.
C16_CompletedHasPreviewAndOutput ==
    \A j \in DOMAIN jobs :
        jobs[j].status = "completed" =>
            /\ "result_preview" \in DOMAIN jobs[j]
            /\ jobs[j].result_preview # << >>
            /\ get_job_output(j).status_code = 200
            /\ jobs[j].result_preview = Slice(get_job_output(j).output, 0, PreviewLen)

----------------------------------------------------------------------------
(* An unreachable partitioner (SpecPipeline) *)

\* the error text names the partitioner service or its endpoint
MentionsPartitioner(e, req) ==
    e.detail = "Partitioner service failed" \/ e.url = req.partitioner_url

\* C17: a job whose /partition call ends in a connection error ends failed
\* with an error that mentions the partitioner; it has sent no /reduce
\* request, its output file does not exist and its record has no output_file.
C17_UnreachablePartitioner ==
    [][\A s \in DOMAIN tasks :
          (Ends(s) /\ tasks'[s].pcall = "exception") =>
              /\ jobs'[tasks[s].job_id].status = "failed"
              /\ MentionsPartitioner(jobs'[tasks[s].job_id].error, tasks[s].req)
              /\ tasks'[s].rcalls = << >>
              /\ \A a \in DOMAIN tasks'[s].posts : tasks'[s].posts[a].path # "/reduce"
              /\ OutputFile(tasks[s].job_id) \notin DOMAIN files'
              /\ "output_file" \notin DOMAIN jobs'[tasks[s].job_id]]_vars

----------------------------------------------------------------------------
(* GET /jobs/{id}/output (Spec) *)

\* C18: GET /jobs/{id}/output answers 404 for an unknown id and for the job of
\* every accepted submission that is not completed (pending, running or
\* failed), and for a completed job it answers with the final result lines of
\* that submission's pipeline under the file name derived from its job id.
C18_OutputEndpoint ==
    /\ get_job_output(NoJobId).status_code = 404
    /\ \A s \in DOMAIN tasks :
          Accepted(s) =>
              IF jobs[tasks[s].job_id].status # "completed"
              THEN get_job_output(tasks[s].job_id).status_code = 404
              ELSE /\ get_job_output(tasks[s].job_id).status_code = 200
                   /\ get_job_output(tasks[s].job_id).file_name = OutputFile(tasks[s].job_id)
                   /\ get_job_output(tasks[s].job_id).output = final_results(tasks[s].req)

----------------------------------------------------------------------------
(* The friend-recommendation plugin (mapreduce/algorithms/friendrec.py) on *)
(* lines as strings of characters                                          *)

Whitespace == {" ", TAB}

\* str.strip()
RECURSIVE LStrip(_)
LStrip(str) ==
    IF str # << >> /\ Head(str) \in Whitespace THEN LStrip(Tail(str)) ELSE str
RECURSIVE RStrip(_)
RStrip(str) ==
    IF str # << >> /\ str[Len(str)] \in Whitespace
    THEN RStrip(SubSeq(str, 1, Len(str) - 1)) ELSE str
StripChars(str) == RStrip(LStrip(str))

\* re.split(r'[\t ,]+', str): the pieces between the maximal runs of tabs,
\* spaces and commas
RECURSIVE ReSplit(_, _, _)
ReSplit(str, piece, in_run) ==
    IF str = << >> THEN <<piece>>
    ELSE IF Head(str) \in {TAB, " ", ","}
    THEN (IF in_run THEN << >> ELSE <<piece>>) \o ReSplit(Tail(str), << >>, TRUE)
    ELSE ReSplit(Tail(str), Append(piece, Head(str)), FALSE)

\* ord() of the characters of the user ids and of the keys
Ord(c) ==
    CASE c = "1" -> 49 [] c = "2" -> 50 [] c = "3" -> 51
      [] c = " " -> 32 [] c = "a" -> 97 [] c = "e" -> 101

\* a < b on strings
RECURSIVE StrLess(_, _)
StrLess(a, b) ==
    IF b = << >> THEN FALSE
    ELSE IF a = << >> THEN TRUE
    ELSE IF Head(a) = Head(b) THEN StrLess(Tail(a), Tail(b))
    ELSE Ord(Head(a)) < Ord(Head(b))

\* (a, b) if a < b else (b, a)
Ordered(a, b) == IF StrLess(a, b) THEN <<a, b>> ELSE <<b, a>>

\* friendrec.map_function: the emit calls of one line, as <<key, value>> with
\* key a pair of users; "-inf" is float('-inf') and "1" the integer 1
FriendMap(line) ==
    LET tokens == ReSplit(StripChars(line), << >>, FALSE)
        user == Head(tokens)
        friends == Tail(tokens)
        n == Len(friends)
        Pairs(i) == [j \in 1..(n - i) |-> <<Ordered(friends[i], friends[i + j]), "1">>]
    IN  [k \in 1..n |-> <<Ordered(user, friends[k]), "-inf">>]
        \o Flatten([i \in 1..n |-> Pairs(i)])

\* str() of a tuple of two strings: ('a', 'b')
TupleStr(pair) ==
    <<"(", "'">> \o pair[1] \o <<"'", ",", " ", "'">> \o pair[2] \o <<"'", ")">>

\* mapper_service.emit: f"{key}<TAB>{value}"
Emit(emission) == TupleStr(emission[1]) \o <<TAB, emission[2]>>

----------------------------------------------------------------------------
(* SpecMap: the mapper service on lines as strings of characters *)

\* the lines sent to the mapper: "1<TAB>2 3", "2<TAB>1 3", "3<TAB>1 2",
\* " 1<TAB>2" and " "
DataLines ==
    { <<"1", TAB, "2", " ", "3">>, <<"2", TAB, "1", " ", "3">>,
      <<"3", TAB, "1", " ", "2">>, <<" ", "1", TAB, "2">>, <<" ">> }
DataLineSets == UNION {[1..m -> DataLines] : m \in 0..MaxDataLines}

\* a loop without the test of line.strip()
MapCallsAllLines(data_lines) ==
    [k \in 1..Len(data_lines) |-> StripChars(data_lines[k])]

\* the loop of map_data: the arguments of the calls of map_function
MapCalls(data_lines) ==
    LET stripped == [k \in 1..Len(data_lines) |-> StripChars(data_lines[k])]
        Truthy(str) == str # << >>
    IN  SelectSeq(stripped, Truthy)

\* emissions after the loop
MapEmissions(data_lines) ==
    LET calls == MapCalls(data_lines)
    IN  Flatten([k \in 1..Len(calls) |->
                    LET emitted == FriendMap(calls[k])
                    IN  [e \in 1..Len(emitted) |-> Emit(emitted[e])]])

InitMap == Started(0) /\ ChunkIdle /\ PartIdle /\ WorkIdle

\* POST /map: the handler has no await and keeps nothing between calls
PostMap(data_lines) ==
    /\ LET emissions == MapEmissions(data_lines)
       IN  m_last' = [data_lines |-> data_lines,
                      calls |-> MapCalls(data_lines),
                      mapped_data |-> emissions,
                      total_records |-> Len(emissions)]
    /\ UNCHANGED <<orchVars, chunkVars, partVars, r_last, f_run, l_run>>

NextMap == \E data_lines \in DataLineSets : PostMap(data_lines)

SpecMap == InitMap /\ [][NextMap]_vars

----------------------------------------------------------------------------
(* SpecReduce: the reducer service on records as strings of characters *)

\* the records sent to the reducer: "a<TAB>1", "a<TAB>2", "e<TAB>1", "<TAB>1"
\* (an empty key), " " and "a" (no tab)
ReduceRecords ==
    { <<"a", TAB, "1">>, <<"a", TAB, "2">>, <<"e", TAB, "1">>, <<TAB, "1">>,
      <<" ">>, <<"a">> }
ReduceRecordSets == UNION {[1..m -> ReduceRecords] : m \in 0..MaxReduced}

\* line.split(TAB, 1): one part without a tab, else the text before the first
\* tab and all the text after it
SplitOnce(line) ==
    IF \A k \in 1..Len(line) : line[k] # TAB THEN <<line>>
    ELSE <<SplitFirst(line, TAB),
           SubSeq(line, Len(SplitFirst(line, TAB)) + 2, Len(line))>>

\* the loop of reduce_data and the flush after it: the calls of
\* reduce_function made, as <<key, values>>; the empty string stands
\* for current_key = None too (both are falsy)
RECURSIVE ReduceLoop(_, _, _, _)
ReduceLoop(sorted_data, current_key, values, calls) ==
    IF sorted_data = << >>
    THEN IF current_key # << >> THEN Append(calls, <<current_key, values>>) ELSE calls
    ELSE LET line == Head(sorted_data)
             parts == SplitOnce(line)
         IN  IF ~NonBlank(line) \/ Len(parts) # 2
             THEN ReduceLoop(Tail(sorted_data), current_key, values, calls)
             ELSE LET flush == current_key # << >> /\ current_key # parts[1]
                  IN  ReduceLoop(Tail(sorted_data), parts[1],
                                 (IF flush THEN << >> ELSE values) \o <<parts[2]>>,
                                 IF flush THEN Append(calls, <<current_key, values>>)
                                 ELSE calls)

InitReduce == Started(0) /\ ChunkIdle /\ PartIdle /\ WorkIdle

\* POST /reduce: the handler has no await and keeps nothing between calls;
\* reduced_data is what the plugin returned for these calls, one after the other
PostReduce(sorted_data) ==
    /\ r_last' = [sorted_data |-> sorted_data,
                  calls |-> ReduceLoop(sorted_data, << >>, << >>, << >>)]
    /\ UNCHANGED <<orchVars, chunkVars, partVars, m_last, f_run, l_run>>

NextReduce == \E sorted_data \in ReduceRecordSets : PostReduce(sorted_data)

SpecReduce == InitReduce /\ [][NextReduce]_vars

----------------------------------------------------------------------------
(* SpecFriend: the friend-recommendation plugin through the pipeline *)

\* the dataset: users 1, 2 and 3, each a friend of the other two
FriendLines ==
    << <<"1", TAB, "2", " ", "3">>, <<"2", TAB, "1", " ", "3">>,
       <<"3", TAB, "1", " ", "2">> >>

\* str.strip(chars)
RECURSIVE StripOf(_, _)
StripOf(str, chars) ==
    IF str # << >> /\ Head(str) \in chars THEN StripOf(Tail(str), chars)
    ELSE IF str # << >> /\ str[Len(str)] \in chars
    THEN StripOf(SubSeq(str, 1, Len(str) - 1), chars)
    ELSE str

\* str(float) of the sums that occur
FloatStr(n) == CASE n = 1 -> "1.0" [] n = 2 -> "2.0" [] n = 3 -> "3.0"

\* friendrec.reduce_function: the list returned, << >> for None; a sum of
\* floats with a -inf among them is -inf
FriendReduce(key, values) ==
    LET inner == StripOf(StripOf(key, {"(", ")"}), {"\""})
        first == SplitFirst(inner, ",")
        second == SplitFirst(SubSeq(inner, Len(first) + 2, Len(inner)), ",")
        a == StripOf(first, Whitespace)
        b == StripOf(second, Whitespace)
        ones == Cardinality({k \in 1..Len(values) : values[k] = <<"1">>})
    IN  IF \E k \in 1..Len(values) : values[k] = <<"-inf">> THEN << >>
        ELSE IF ones > 0
        THEN << a \o <<TAB, "(">> \o b \o <<",", FloatStr(ones), ")">>,
                b \o <<TAB, "(">> \o a \o <<",", FloatStr(ones), ")">> >>
        ELSE << >>

\* reducer_service.reduce_data with the plugin: what each call of
\* reduce_function returned, one after the other
FriendReduceData(sorted_data) ==
    LET calls == ReduceLoop(sorted_data, << >>, << >>, << >>)
    IN  Flatten([k \in 1..Len(calls) |-> FriendReduce(calls[k][1], calls[k][2])])

InitFriend ==
    /\ Started(0) /\ ChunkIdle /\ PartIdle /\ ReduceIdle /\ MapIdle /\ LocalIdle
    /\ \E M \in 1..MaxMappers, N \in 1..MaxPartitions :
          f_run = [pc |-> "map", mappers |-> M, reducers |-> N,
                   mapped |-> [k \in 1..M |-> "pending"],
                   partitions |-> << >>,
                   reduced |-> [k \in 1..N |-> "pending"],
                   all_reduced_data |-> << >>]

\* mapper k answers the /map call on its chunk
FriendMapperReturn(k) ==
    /\ f_run.pc = "map"
    /\ k \in 1..f_run.mappers
    /\ f_run.mapped[k] = "pending"
    /\ f_run' = [f_run EXCEPT
                    !.mapped[k] = MapEmissions(ChunkAt(FriendLines, f_run.mappers, k - 1))]
    /\ UNCHANGED <<orchVars, chunkVars, partVars, r_last, m_last, l_run>>

\* every mapper has answered: all_mapped_data is the responses one after the
\* other, and the partitioner answers the /partition call on it
FriendPartition ==
    /\ f_run.pc = "map"
    /\ \A k \in 1..f_run.mappers : f_run.mapped[k] # "pending"
    /\ f_run' = [f_run EXCEPT
                    !.pc = "reduce",
                    !.partitions =
                        PartitionData(Flatten(f_run.mapped), f_run.reducers).partitions]
    /\ UNCHANGED <<orchVars, chunkVars, partVars, r_last, m_last, l_run>>

\* reducer k answers the /reduce call on partition k - 1
FriendReducerReturn(k) ==
    /\ f_run.pc = "reduce"
    /\ k \in 1..f_run.reducers
    /\ f_run.reduced[k] = "pending"
    /\ f_run' = [f_run EXCEPT !.reduced[k] = FriendReduceData(f_run.partitions[k - 1])]
    /\ UNCHANGED <<orchVars, chunkVars, partVars, r_last, m_last, l_run>>

\* every reducer has answered: all_reduced_data is the responses one after
\* the other
FriendGathered ==
    /\ f_run.pc = "reduce"
    /\ \A k \in 1..f_run.reducers : f_run.reduced[k] # "pending"
    /\ f_run' = [f_run EXCEPT !.pc = "done", !.all_reduced_data = Flatten(f_run.reduced)]
    /\ UNCHANGED <<orchVars, chunkVars, partVars, r_last, m_last, l_run>>

NextFriend ==
    \/ \E k \in 1..MaxMappers : FriendMapperReturn(k)
    \/ FriendPartition
    \/ \E k \in 1..MaxPartitions : FriendReducerReturn(k)
    \/ FriendGathered

SpecFriend == InitFriend /\ [][NextFriend]_vars

----------------------------------------------------------------------------
(* SpecLocal: the mapreduce-local pipeline on what the mappers emitted *)

\* what the plugin emits, as <<key, value>>: ("a", "1"), ("a", "2"),
\* ("e", "1"), ("", "1") and (" ", " ")
Emitted ==
    { << <<"a">>, <<"1">> >>, << <<"a">>, <<"2">> >>, << <<"e">>, <<"1">> >>,
      << << >>, <<"1">> >>, << <<" ">>, <<" ">> >> }
EmittedSets == UNION {[1..m -> Emitted] : m \in 0..MaxEmitted}

\* mapper_service.emit on strings: f"{key}<TAB>{value}"
EmitRecord(emission) == emission[1] \o <<TAB>> \o emission[2]

\* a step 3 that leaves the records in the order of the mappers
NotSorted(data) == data

\* sorted(all_mapped_data, key=lambda x: x.split(TAB)[0]): a stable sort on the
\* text before the first tab
RECURSIVE SortedByKey(_)
SortedByKey(data) ==
    IF data = << >> THEN << >>
    ELSE LET before == SortedByKey(SubSeq(data, 1, Len(data) - 1))
             last == data[Len(data)]
             keep == Cardinality({k \in 1..Len(before) :
                                     ~StrLess(SplitFirst(last, TAB),
                                              SplitFirst(before[k], TAB))})
         IN  SubSeq(before, 1, keep) \o <<last>> \o SubSeq(before, keep + 1, Len(before))

InitLocal ==
    /\ Started(0) /\ ChunkIdle /\ PartIdle /\ ReduceIdle /\ MapIdle /\ FriendIdle
    /\ \E emitted \in EmittedSets, N \in 1..MaxPartitions :
          l_run = [pc |-> "map", emitted |-> emitted, reducers |-> N,
                   all_mapped_data |-> << >>, sorted_data |-> << >>,
                   partitions |-> << >>, calls |-> << >>]

\* steps 2 and 3: the mappers answered with the records of their emissions,
\* the orchestrator puts them together and sorts them
LocalSort ==
    /\ l_run.pc = "map"
    /\ LET all_mapped_data ==
               [k \in 1..Len(l_run.emitted) |-> EmitRecord(l_run.emitted[k])]
       IN  l_run' = [l_run EXCEPT !.pc = "partition",
                                  !.all_mapped_data = all_mapped_data,
                                  !.sorted_data = SortedByKey(all_mapped_data)]
    /\ UNCHANGED <<orchVars, chunkVars, partVars, r_last, m_last, f_run>>

\* step 4: the partitioner answers the /partition call on sorted_data
LocalPartition ==
    /\ l_run.pc = "partition"
    /\ l_run' = [l_run EXCEPT
                    !.pc = "reduce",
                    !.partitions = PartitionData(l_run.sorted_data, l_run.reducers).partitions,
                    !.calls = [k \in 1..l_run.reducers |-> "pending"]]
    /\ UNCHANGED <<orchVars, chunkVars, partVars, r_last, m_last, f_run>>

\* step 5: the reducer of partition k - 1 answers its /reduce call
LocalReducerReturn(k) ==
    /\ l_run.pc = "reduce"
    /\ k \in 1..l_run.reducers
    /\ l_run.calls[k] = "pending"
    /\ l_run' = [l_run EXCEPT
                    !.calls[k] = ReduceLoop(l_run.partitions[k - 1], << >>, << >>, << >>)]
    /\ UNCHANGED <<orchVars, chunkVars, partVars, r_last, m_last, f_run>>

\* gather returns
LocalGathered ==
    /\ l_run.pc = "reduce"
    /\ \A k \in 1..l_run.reducers : l_run.calls[k] # "pending"
    /\ l_run' = [l_run EXCEPT !.pc = "done"]
    /\ UNCHANGED <<orchVars, chunkVars, partVars, r_last, m_last, f_run>>

NextLocal ==
    \/ LocalSort
    \/ LocalPartition
    \/ \E k \in 1..MaxPartitions : LocalReducerReturn(k)
    \/ LocalGathered

SpecLocal == InitLocal /\ [][NextLocal]_vars

----------------------------------------------------------------------------
(* the partitioner service *)

\* C19: the bucket of a record is a function of its key and of N alone: two
\* records with the same key are in the same bucket, within one response and
\* between a response and the one before it for the same N, whatever the two
\* record sets were.
C19_SameKeySameBucket ==
    LET here == Placed(p_last.partitions)
    IN  /\ \A x \in here, y \in here : x[1] = y[1] => x[2] = y[2]
        /\ p_prev.num_partitions = p_last.num_partitions =>
                \A x \in here, y \in p_prev.placed : x[1] = y[1] => x[2] = y[2]

C19_Witness ==
    /\ p_last.num_partitions = 2 /\ p_prev.num_partitions = 2
    /\ p_last.sorted_data = << <<"a", TAB, "1">>, <<"a", TAB, "3">> >>
    /\ <<"a">> \in {x[1] : x \in p_prev.placed}
    /\ <<"e">> \in {x[1] : x \in p_prev.placed}
    /\ p_last.partitions[1] = p_last.sorted_data

\* the number of times a record occurs in a sequence
Occurrences(seq, record) == Cardinality({k \in 1..Len(seq) : seq[k] = record})

\* the buckets of the last response, one after the other
AllBuckets ==
    Flatten([k \in 1..p_last.num_partitions |-> p_last.partitions[k - 1]])

\* the response has the buckets 0..N-1 and nothing else, the counts are the
\* lengths, and the buckets together hold the given records once each; with
\* one bucket, it is those records
PartitionOf(records) ==
    LET n == p_last.num_partitions
    IN  n >= 1 =>
        /\ DOMAIN p_last.partitions = 0..(n - 1)
        /\ DOMAIN p_last.partition_counts = 0..(n - 1)
        /\ \A i \in 0..(n - 1) :
               p_last.partition_counts[i] = Len(p_last.partitions[i])
        /\ Len(AllBuckets) = Len(records)
        /\ \A record \in Records :
               Occurrences(AllBuckets, record) = Occurrences(records, record)
        /\ n = 1 => p_last.partitions[0] = records

\* C20 as stated: every input record is in exactly one bucket and the counts
\* sum to the number of input records.
C20_EveryRecordInOneBucket == PartitionOf(p_last.sorted_data)

\* C20: every record that is not blank is in exactly one of the buckets
\* 0..N-1, the counts are the lengths of the buckets and sum to the number of
\* records that are not blank; N = 1 puts them all in bucket 0.
C20_EveryNonBlankRecordInOneBucket ==
    PartitionOf(SelectSeq(p_last.sorted_data, NonBlank))

C20_Witness ==
    /\ p_last.num_partitions = 2
    /\ p_last.sorted_data = << <<" ">>, <<"a", TAB, "1">> >>
    /\ p_last.partitions[0] = << >>
    /\ p_last.partition_counts[1] = 1

\* the buckets of the last response that hold the record
BucketsOf(record) ==
    {i \in DOMAIN p_last.partitions :
        \E k \in 1..Len(p_last.partitions[i]) : p_last.partitions[i][k] = record}

NoTab(record) == \A k \in 1..Len(record) : record[k] # TAB

\* C21: a record without a tab is in bucket 0, whatever N is.
C21_NoTabInBucketZero ==
    \A k \in 1..Len(p_last.sorted_data) :
        NoTab(p_last.sorted_data[k]) => BucketsOf(p_last.sorted_data[k]) = {0}

\* the text before the first of the given separators, all of it without one
BeforeAny(str, seps) ==
    IF \A k \in 1..Len(str) : str[k] \notin seps THEN str
    ELSE LET first == CHOOSE k \in 1..Len(str) :
                          /\ str[k] \in seps
                          /\ \A m \in 1..(k - 1) : str[m] \notin seps
         IN  SubSeq(str, 1, first - 1)

\* C27 as stated: the bucket of every record is the hash of all its text
\* before the first tab, modulo N.
C27_BucketIsHashOfWholeKey ==
    \A i \in DOMAIN p_last.partitions : \A k \in 1..Len(p_last.partitions[i]) :
        i = md5_mod60(BeforeAny(p_last.partitions[i][k], {TAB})) % p_last.num_partitions

\* C27: the bucket of every record is the hash, modulo N, of its text before
\* the first tab or comma, whichever comes first: of a key with a comma only
\* the part before the comma counts.
C27_BucketIsHashOfFirstId ==
    \A i \in DOMAIN p_last.partitions : \A k \in 1..Len(p_last.partitions[i]) :
        i = md5_mod60(BeforeAny(p_last.partitions[i][k], {TAB, ","})) % p_last.num_partitions

C27_Witness ==
    /\ p_last.num_partitions = 2
    /\ p_last.sorted_data = << <<"a", ",", "b", TAB, "1">>, <<"e", TAB, "1">> >>
    /\ p_last.partitions[1] = << <<"a", ",", "b", TAB, "1">> >>
    /\ p_last.partitions[0] = << <<"e", TAB, "1">> >>

\* sub can be had from seq by leaving elements out
RECURSIVE IsSubsequence(_, _)
IsSubsequence(sub, seq) ==
    IF sub = << >> THEN TRUE
    ELSE IF seq = << >> THEN FALSE
    ELSE IF Head(sub) = Head(seq) THEN IsSubsequence(Tail(sub), Tail(seq))
    ELSE IsSubsequence(sub, Tail(seq))

\* C28: every bucket holds its records in the order of the request, and two
\* records with the same key that follow each other in the request follow
\* each other in their bucket.
C28_OrderPreserved ==
    /\ \A i \in DOMAIN p_last.partitions :
           IsSubsequence(p_last.partitions[i], p_last.sorted_data)
    /\ \A k \in 1..(Len(p_last.sorted_data) - 1) :
           LET one == p_last.sorted_data[k]
               two == p_last.sorted_data[k + 1]
           IN  NonBlank(one) /\ NonBlank(two) /\ KeyOf(one) = KeyOf(two) =>
                   \E i \in DOMAIN p_last.partitions :
                       \E j \in 1..(Len(p_last.partitions[i]) - 1) :
                           /\ p_last.partitions[i][j] = one
                           /\ p_last.partitions[i][j + 1] = two

C28_Witness ==
    /\ p_last.num_partitions = 2
    /\ p_last.sorted_data = << <<"a", TAB, "3">>, <<"a", TAB, "1">> >>
    /\ p_last.partitions[1] = p_last.sorted_data
    /\ p_last.partitions[0] = << >>

----------------------------------------------------------------------------
(* the reducer service *)

\* the records of a request that have a key and a value
Keyed(sorted_data) ==
    LET HasTab(line) == ~NoTab(line) IN SelectSeq(sorted_data, HasTab)

\* the maximal runs of consecutive records with one key, as <<key, values>>
RECURSIVE Runs(_)
Runs(records) ==
    IF records = << >> THEN << >>
    ELSE LET before == Runs(SubSeq(records, 1, Len(records) - 1))
             last == records[Len(records)]
             key == BeforeAny(last, {TAB})
             value == SubSeq(last, Len(key) + 2, Len(last))
         IN  IF before # << >> /\ before[Len(before)][1] = key
             THEN [before EXCEPT ![Len(before)][2] = Append(@, value)]
             ELSE Append(before, <<key, <<value>>>>)

\* C22: reduce_function is called once per maximal run of records with one
\* key, in run order, with the run's values in order, for every key, the
\* empty one included.
C22_OneCallPerRun == r_last.calls = Runs(Keyed(r_last.sorted_data))

----------------------------------------------------------------------------
(* the mapper service *)

\* the positions of the lines of the last request that are not blank
NonBlankAt ==
    {k \in 1..Len(m_last.data_lines) : NonBlank(m_last.data_lines[k])}

\* the position of the n-th non-blank line
NthNonBlank(n) ==
    CHOOSE k \in NonBlankAt : Cardinality({j \in NonBlankAt : j <= k}) = n

\* the text of a record before its first tab, and after it
RecordKey(record) == BeforeAny(record, {TAB})
RecordValue(record) == SubSeq(record, Len(RecordKey(record)) + 2, Len(record))

\* C24: map_function is called once per non-blank line, in order; the
\* response lists the emissions of the calls in order, each as
\* key<TAB>value, and total_records is its length.
C24_OneCallPerNonBlankLine ==
    /\ Len(m_last.calls) = Cardinality(NonBlankAt)
    /\ \A n \in 1..Len(m_last.calls) :
           m_last.calls[n] = StripChars(m_last.data_lines[NthNonBlank(n)])
    /\ LET emitted == Flatten([n \in 1..Len(m_last.calls) |-> FriendMap(m_last.calls[n])])
       IN  /\ Len(m_last.mapped_data) = Len(emitted)
           /\ \A e \in 1..Len(emitted) :
                  /\ RecordKey(m_last.mapped_data[e]) = TupleStr(emitted[e][1])
                  /\ RecordValue(m_last.mapped_data[e]) = <<emitted[e][2]>>
    /\ m_last.total_records = Len(m_last.mapped_data)

C24_Witness ==
    /\ m_last.data_lines = << <<" ">>, <<"2", TAB, "1", " ", "3">>, <<" ", "1", TAB, "2">> >>
    /\ Len(m_last.calls) = 2
    /\ m_last.total_records = 4
    /\ m_last.mapped_data[4] =
           <<"(", "'", "1", "'", ",", " ", "'", "2", "'", ")", TAB, "-inf">>

----------------------------------------------------------------------------
(* the friend-recommendation plugin *)

\* a line of reduce output that recommends user b to user a
Recommends(line, a, b) ==
    \E count \in {"1.0", "2.0", "3.0"} :
        line = <<"'", a, "'", TAB, "(", "'", b, "'", ",", count, ")">>

\* C23: on the three-user dataset, users 2 and 3 are friends and the reduced
\* output recommends neither to the other, for every mapper count and
\* reducer count.
C23_FriendsNotRecommended ==
    f_run.pc = "done" =>
        \A k \in 1..Len(f_run.all_reduced_data) :
            /\ ~Recommends(f_run.all_reduced_data[k], "2", "3")
            /\ ~Recommends(f_run.all_reduced_data[k], "3", "2")

----------------------------------------------------------------------------
(* the reduce phase and step 5 of the orchestrator *)

\* the reducer endpoint list is a list with fewer entries than num_reducers
ShortReducerList(req) ==
    req.reducer_urls # NoneList /\ Len(req.reducer_urls) < req.num_reducers

\* C30: a job whose reducer endpoint list is shorter than its reducer count
\* ends failed without a /reduce request sent; when its map and partition
\* calls succeeded, the exception is the IndexError of reducer_urls[i].
C30_ShortReducerListFails ==
    [][\A s \in DOMAIN tasks :
          (Ends(s) /\ ShortReducerList(tasks[s].req)) =>
              /\ tasks'[s].result = "failed"
              /\ jobs'[tasks[s].job_id].status = "failed"
              /\ \A k \in 1..Len(tasks'[s].posts) : tasks'[s].posts[k].path # "/reduce"
              /\ tasks'[s].rcalls = << >>
              /\ tasks'[s].pcall = "200" => tasks'[s].raised.type = "IndexError"]_vars

C30_Witness ==
    \E s \in DOMAIN tasks :
        /\ tasks[s].pc = "done"
        /\ tasks[s].req.reducer_urls = <<"r1">> /\ tasks[s].req.num_reducers = 2
        /\ tasks[s].mcalls = <<"200", "200">> /\ tasks[s].pcall = "200"
        /\ tasks[s].raised.type = "IndexError"
        /\ Len(tasks[s].posts) = 3
        /\ jobs[tasks[s].job_id].status = "failed"

\* what the reducers answered for the partitions of task s, reducer 0 first
InReducerOrder(s) ==
    Flatten([k \in 1..tasks[s].req.num_reducers |->
                reduce_data(tasks[s].partitioned.partitions[k - 1])])

\* C25: the results before step 5 are the reducers' outputs in the order of
\* the reducer indexes, in whatever order the calls ended: a job without
\* aggregate_function, or whose step 5 raised, saves exactly them, and a job
\* with one saves what aggregate_function makes of them.
C25_ReducerIndexOrder ==
    [][\A s \in DOMAIN tasks :
          (Ends(s) /\ tasks'[s].result = "completed") =>
              IF HasAggregate(tasks[s].req.algorithm) /\ tasks'[s].aggregate = "returned"
              THEN files'[OutputFile(tasks[s].job_id)] = aggregate_function(InReducerOrder(s))
              ELSE files'[OutputFile(tasks[s].job_id)] = InReducerOrder(s)]_vars

\* reducer 1 answered before reducer 0, both with lines, and the job has
\* the lines of reducer 0 first
C25_Witness ==
    \E s \in DOMAIN tasks :
        /\ tasks[s].pc = "done" /\ tasks[s].result = "completed"
        /\ tasks[s].rdone = <<2, 1>>
        /\ tasks[s].reduced[1] # << >> /\ tasks[s].reduced[2] # << >>
        /\ files[OutputFile(tasks[s].job_id)] = tasks[s].reduced[1] \o tasks[s].reduced[2]
        /\ files[OutputFile(tasks[s].job_id)] # tasks[s].reduced[2] \o tasks[s].reduced[1]

\* C26: when step 5 raises, the job is not failed by it: if saving succeeds
\* the job is completed and its preview and artifact are the unaggregated
\* reducer outputs, and a job that ends failed after it was failed by step 6.
C26_AggregateFailureNotFatal ==
    [][\A s \in DOMAIN tasks :
          (Ends(s) /\ tasks'[s].aggregate = "raised") =>
              IF tasks'[s].save = "saved"
              THEN /\ tasks'[s].result = "completed"
                   /\ jobs'[tasks[s].job_id].status = "completed"
                   /\ jobs'[tasks[s].job_id].result_preview
                          = Slice(InReducerOrder(s), 0, PreviewLen)
                   /\ jobs'[tasks[s].job_id].output_file = OutputFile(tasks[s].job_id)
                   /\ files'[OutputFile(tasks[s].job_id)] = InReducerOrder(s)
              ELSE tasks'[s].raised.type = "OSError"]_vars

\* step 5 of a job of the plugin with aggregate_function raised, and the job
\* completed with the lines that aggregate_function would have merged
C26_Witness ==
    \E s \in DOMAIN tasks :
        /\ tasks[s].pc = "done" /\ tasks[s].req.algorithm = "merge"
        /\ tasks[s].aggregate = "raised"
        /\ jobs[tasks[s].job_id].status = "completed"
        /\ files[OutputFile(tasks[s].job_id)] = Flatten(tasks[s].reduced)
        /\ aggregate_function(Flatten(tasks[s].reduced)) # Flatten(tasks[s].reduced)

----------------------------------------------------------------------------
(* the mapreduce-local pipeline *)

\* the calls of reduce_function of the whole job, reducer 0 first
LocalCalls == Flatten(l_run.calls)

\* the values emitted for a key, in the order of the emissions
ValuesEmitted(key) ==
    LET Mine(emission) == emission[1] = key
        mine == SelectSeq(l_run.emitted, Mine)
    IN  [k \in 1..Len(mine) |-> mine[k][2]]

\* the key is passed to reduce_function once in the whole job, and all the
\* values emitted for it are among the values of that call, in order
ReducedOnce(key) ==
    LET at == {n \in 1..Len(LocalCalls) : LocalCalls[n][1] = key}
    IN  /\ Cardinality(at) = 1
        /\ \A n \in at : IsSubsequence(ValuesEmitted(key), LocalCalls[n][2])

====
